---- MODULE Spec2Model ----
(***************************************************************************)
(* Model of the components of the HabibiBloxberg site that carry state:    *)
(* the SquaresAnimation grid renderer and initSpiralBackground (squares    *)
(* animation script), the caching service worker (sw.js) and the page      *)
(* navigation (script-improved.js).                                        *)
(*                                                                         *)
(* Lengths of the grid renderer are integers counted in twentieths of a    *)
(* CSS pixel: the 0.1 floor of the effective speed is the integer 2, and a *)
(* configured speed below the floor (0.05 px) is the integer 1.            *)
(***************************************************************************)
EXTENDS Integers, Sequences, FiniteSets, TLC

\* ---------------------------------------------------------------- bounds
MaxRafId == 5          \* frame requests issued per run of the grid model
MaxEvents == 2         \* fetch events dispatched per run of the worker model

\* ------------------------------------------------------ program constants
DefaultSpeed == 20          \* options.speed || 1        (1 px)
DefaultSquareSize == 800    \* options.squareSize || 40  (40 px)
MinEffectiveSpeed == 2      \* Math.max(this.speed, 0.1) (0.1 px)

\* this.animationId = null is the id 0: requestAnimationFrame returns ids from 1
NullId == 0
\* this.hoveredSquare = null
NoSquare == [some |-> FALSE, x |-> 0, y |-> 0]

\* ------------------------------------------------------------- variables
VARIABLES
    \* SquaresAnimation fields
    direction, speed, squareSize,
    numSquaresX, numSquaresY, gridOffset, hoveredSquare, animationId,
    canvas,          \* canvas.width / canvas.height
    \* page environment of the instance
    rect,            \* canvas.getBoundingClientRect()
    listeners,       \* event types with a handler of the instance attached
    rafPending,      \* ids of the animation-frame requests not yet run or cancelled
    rafNext,         \* id the next requestAnimationFrame call returns
    lastDraw,        \* what the last drawGrid call put on the canvas
    \* history of the calls made on the instance
    stopped,         \* stopAnimation() returned and startAnimation() was not called since
    destroyed,       \* destroy() returned
    restarted,       \* startAnimation() was called after destroy()
    resized,         \* handleResize has run
    pointer,         \* the pointer, while it rests on the centre of a drawn cell
    \* service worker: cache storage, workers, fetch events
    caches,          \* CacheStorage: sequence of [name, id, entries] in creation order
    cacheNext,       \* identity given to the next cache created
    phase,           \* lifecycle phase of each worker version
    activation,      \* per version: progress of the activate handler
    seedFailed,      \* per version: manifest URLs whose fetch failed during install
    events,          \* the fetch events dispatched so far, with their handler's progress
    \* two frame updates of one instance with updateConfig between them
    trip,            \* the instance's fields, the offset it started from, the step reached
    \* the page's background: initSpiralBackground and the instances it creates
    squaresAnimationInstance,   \* index in `instances` of the instance held, 0 for null
    instances,       \* every instance created: [animationId, pending, listeners, speed]
    canvasPresent,   \* document.getElementById('background-canvas') finds the element
    frameNext,       \* id the window's next requestAnimationFrame call returns
    lastInit,        \* how the last initSpiralBackground() call ended
    \* page navigation (script-improved.js)
    currentPage,     \* state.currentPage
    active,          \* the pages whose content element carries the class 'active'
    timers,          \* target pages of the transition timers not yet fired, oldest first
    history,         \* the pages pushed with history.pushState, oldest first
    navCalls         \* number of navigateTo calls made

gridVars == <<direction, speed, squareSize, numSquaresX, numSquaresY, gridOffset,
              hoveredSquare, animationId, canvas, rect, listeners, rafPending,
              rafNext, lastDraw, stopped, destroyed, restarted, resized, pointer>>
swVars == <<caches, cacheNext, phase, activation, seedFailed, events>>
tripVars == <<trip>>
bgVars == <<squaresAnimationInstance, instances, canvasPresent, frameNext, lastInit>>
navVars == <<currentPage, active, timers, history, navCalls>>
pageVars == <<tripVars, bgVars, navVars>>
vars == <<gridVars, swVars, pageVars>>

\* =========================================================================
\* Grid renderer (SquaresAnimation)
\* =========================================================================

\* the constructor options the model draws from
\* (a missing option is the falsy value 0 or "")
OptDirections == {"", "right", "left", "up", "down", "diagonal"}
OptSpeeds == {0, -3, 1, 2, 5}
OptSquareSizes == {0, 3, 4, 6}
Rects == { [left |-> 0, top |-> 0, width |-> 7, height |-> 5],
           [left |-> 1, top |-> 2, width |-> 4, height |-> 9] }
MousePoints == { [clientX |-> 1, clientY |-> 2], [clientX |-> 5, clientY |-> 8] }

\* JavaScript a || b for an option that may be missing, zero or empty
OrDefault(v, d) == IF v = 0 THEN d ELSE v
OrDefaultStr(v, d) == IF v = "" THEN d ELSE v

\* JavaScript truthiness of this.animationId (null and 0 are falsy)
Truthy(v) == v # NullId

\* JavaScript %: the remainder takes the sign of the dividend
JsRem(a, b) == IF a >= 0 THEN a % b ELSE 0 - ((0 - a) % b)

JsMax(a, b) == IF a >= b THEN a ELSE b

\* Math.floor(a / b) and Math.ceil(a / b) for b > 0
FloorDiv(a, b) == a \div b
CeilDiv(a, b) == 0 - ((0 - a) \div b)

\* the offset arithmetic of updateAnimation without the remainder
UpdateOffset_NoWrap(dir, spd, sq, off) ==
    LET effectiveSpeed == JsMax(spd, MinEffectiveSpeed) IN
    CASE dir = "right"    -> [off EXCEPT !.x = off.x - effectiveSpeed + sq]
      [] dir = "left"     -> [off EXCEPT !.x = off.x + effectiveSpeed + sq]
      [] dir = "up"       -> [off EXCEPT !.y = off.y + effectiveSpeed + sq]
      [] dir = "down"     -> [off EXCEPT !.y = off.y - effectiveSpeed + sq]
      [] dir = "diagonal" -> [x |-> off.x - effectiveSpeed + sq,
                              y |-> off.y - effectiveSpeed + sq]
      [] OTHER            -> off

\* the switch of updateAnimation: the offset after one frame
UpdateOffset(dir, spd, sq, off) ==
    LET effectiveSpeed == JsMax(spd, MinEffectiveSpeed) IN
    CASE dir = "right"    -> [off EXCEPT !.x = JsRem(off.x - effectiveSpeed + sq, sq)]
      [] dir = "left"     -> [off EXCEPT !.x = JsRem(off.x + effectiveSpeed + sq, sq)]
      [] dir = "up"       -> [off EXCEPT !.y = JsRem(off.y + effectiveSpeed + sq, sq)]
      [] dir = "down"     -> [off EXCEPT !.y = JsRem(off.y - effectiveSpeed + sq, sq)]
      [] dir = "diagonal" -> [x |-> JsRem(off.x - effectiveSpeed + sq, sq),
                              y |-> JsRem(off.y - effectiveSpeed + sq, sq)]
      [] OTHER            -> off

\* resizeCanvas without the extra column
NumSquares_NoExtra(len, sq) == CeilDiv(len, sq)

\* resizeCanvas: the column and row counts for a surface
NumSquares(len, sq) == CeilDiv(len, sq) + 1

\* drawGrid: the cells stroked and the rectangles filled with the hover colour
DrawGrid(off, sq, cv, hov) ==
    LET startX == FloorDiv(off.x, sq) * sq
        startY == FloorDiv(off.y, sq) * sq
        Cols == { k \in 0..((cv.width + sq - startX) \div sq) : startX + k * sq < cv.width + sq }
        Rows == { l \in 0..((cv.height + sq - startY) \div sq) : startY + l * sq < cv.height + sq }
    IN [ cols |-> Cardinality(Cols),
         rows |-> Cardinality(Rows),
         fill |-> { [x |-> startX + k * sq - JsRem(off.x, sq),
                     y |-> startY + l * sq - JsRem(off.y, sq)] :
                    <<k, l>> \in { c \in Cols \X Rows :
                                   /\ hov.some
                                   /\ FloorDiv(startX + c[1] * sq - startX, sq) = hov.x
                                   /\ FloorDiv(startY + c[2] * sq - startY, sq) = hov.y } } ]

\* handleMouseMove: the hovered cell for a pointer position
HoveredCell(ev, rc, off, sq) ==
    LET mouseX == ev.clientX - rc.left
        mouseY == ev.clientY - rc.top
        startX == FloorDiv(off.x, sq) * sq
        startY == FloorDiv(off.y, sq) * sq
    IN [ some |-> TRUE,
         x |-> FloorDiv(mouseX + off.x - startX, sq),
         y |-> FloorDiv(mouseY + off.y - startY, sq) ]

\* drawGrid: the indices its two loops run through along one axis, and the
\* canvas coordinate where the cell of index k begins (squareX, squareY)
DrawnIndices(o, sq, len) ==
    LET start == FloorDiv(o, sq) * sq
    IN { k \in 0..((len + sq - start) \div sq) : start + k * sq < len + sq }
CellBegin(o, sq, k) == FloorDiv(o, sq) * sq + k * sq - JsRem(o, sq)

\* no pointer resting on a cell centre
NoPointer == [on |-> FALSE, x |-> 0, y |-> 0, i |-> 0, j |-> 0, draws |-> 0]

\* the pointer record after one more drawGrid: only the first draw is followed
AfterDraw(p) == IF p.on /\ p.draws = 0 THEN [p EXCEPT !.draws = 1] ELSE NoPointer

\* a cancelAnimationFrame that cancels nothing
CancelFrame_Noop(pend, id) == pend

\* cancelAnimationFrame(id)
CancelFrame(pend, id) == pend \ {id}

\* stopAnimation that forgets cancelAnimationFrame
StopResult_NoCancel(aid, pend) == [animationId |-> NullId, pending |-> pend]

\* stopAnimation: the request id kept and the requests left pending
StopResult(aid, pend) ==
    IF Truthy(aid) THEN [animationId |-> NullId, pending |-> CancelFrame(pend, aid)]
                   ELSE [animationId |-> aid, pending |-> pend]

\* destroy that leaves the resize handler on window
RemoveListeners_KeepResize(ls) == (ls \ {"mousemove"}) \ {"mouseleave"}

\* the removeEventListener calls of destroy
RemoveListeners(ls) == ((ls \ {"mousemove"}) \ {"mouseleave"}) \ {"resize"}

\* the body of updateAnimation, run with the requests `pend` pending
updateAnimation(pend) ==
    /\ gridOffset' = UpdateOffset(direction, speed, squareSize, gridOffset)
    /\ lastDraw' = DrawGrid(gridOffset', squareSize, canvas, hoveredSquare)
    /\ animationId' = rafNext
    /\ rafPending' = pend \cup {rafNext}
    /\ rafNext' = rafNext + 1
    /\ pointer' = AfterDraw(pointer)

\* new SquaresAnimation(canvas, options): the state the constructor leaves
Construct(d, s, q, r) ==
    /\ direction = OrDefaultStr(d, "right")
    /\ speed = OrDefault(s, DefaultSpeed)
    /\ squareSize = OrDefault(q, DefaultSquareSize)
    /\ rect = r
    /\ canvas = [width |-> rect.width, height |-> rect.height]
    /\ numSquaresX = NumSquares(canvas.width, squareSize)
    /\ numSquaresY = NumSquares(canvas.height, squareSize)
    /\ hoveredSquare = NoSquare
    /\ listeners = {"mousemove", "mouseleave", "resize"}
       \* startAnimation() at the end of the constructor runs the first frame
    /\ gridOffset = UpdateOffset(direction, speed, squareSize, [x |-> 0, y |-> 0])
    /\ lastDraw = DrawGrid(gridOffset, squareSize, canvas, hoveredSquare)
    /\ animationId = 1
    /\ rafPending = {1}
    /\ rafNext = 2
    /\ stopped = FALSE
    /\ destroyed = FALSE
    /\ restarted = FALSE
    /\ resized = FALSE
    /\ pointer = NoPointer

\* the options and canvas boxes an instance is constructed with
GridStart(Dirs, Speeds, Sizes, Boxes) ==
    \E d \in Dirs, s \in Speeds, q \in Sizes, r \in Boxes : Construct(d, s, q, r)

\* the host runs the callback of a pending frame request
AnimationFrame ==
    /\ rafNext <= MaxRafId
    /\ \E id \in rafPending : updateAnimation(rafPending \ {id})
    /\ UNCHANGED <<direction, speed, squareSize, numSquaresX, numSquaresY,
                   hoveredSquare, canvas, rect, listeners, stopped, destroyed, restarted,
                   resized>>
    /\ UNCHANGED <<swVars, pageVars>>

startAnimation ==
    /\ rafNext <= MaxRafId
    /\ updateAnimation(IF Truthy(animationId) THEN CancelFrame(rafPending, animationId)
                                              ELSE rafPending)
    /\ stopped' = FALSE
    /\ restarted' = (restarted \/ destroyed)
    /\ UNCHANGED <<direction, speed, squareSize, numSquaresX, numSquaresY,
                   hoveredSquare, canvas, rect, listeners, destroyed, resized>>
    /\ UNCHANGED <<swVars, pageVars>>

stopAnimation ==
    /\ animationId' = StopResult(animationId, rafPending).animationId
    /\ rafPending' = StopResult(animationId, rafPending).pending
    /\ stopped' = TRUE
    /\ UNCHANGED <<direction, speed, squareSize, numSquaresX, numSquaresY, gridOffset,
                   hoveredSquare, canvas, rect, listeners, rafNext, lastDraw,
                   destroyed, restarted, resized, pointer>>
    /\ UNCHANGED <<swVars, pageVars>>

destroy ==
    /\ animationId' = StopResult(animationId, rafPending).animationId
    /\ rafPending' = StopResult(animationId, rafPending).pending
    /\ listeners' = RemoveListeners(listeners)
    /\ stopped' = TRUE
    /\ destroyed' = TRUE
    /\ restarted' = FALSE
    /\ UNCHANGED <<direction, speed, squareSize, numSquaresX, numSquaresY, gridOffset,
                   hoveredSquare, canvas, rect, rafNext, lastDraw, resized, pointer>>
    /\ UNCHANGED <<swVars, pageVars>>

\* a mousemove event on the canvas
MouseMove ==
    /\ \E ev \in MousePoints :
         IF "mousemove" \in listeners
         THEN hoveredSquare' = HoveredCell(ev, rect, gridOffset, squareSize)
         ELSE UNCHANGED hoveredSquare
    /\ pointer' = NoPointer
    /\ UNCHANGED <<direction, speed, squareSize, numSquaresX, numSquaresY, gridOffset,
                   animationId, canvas, rect, listeners, rafPending, rafNext, lastDraw,
                   stopped, destroyed, restarted, resized>>
    /\ UNCHANGED <<swVars, pageVars>>

\* the cells whose centre the model moves the pointer to: drawn, with the centre
\* on a whole coordinate and inside the canvas
CentreCells ==
    { c \in {<<0, 0>>, <<1, 0>>, <<1, 1>>} :
        /\ squareSize % 2 = 0
        /\ c[1] \in DrawnIndices(gridOffset.x, squareSize, canvas.width)
        /\ c[2] \in DrawnIndices(gridOffset.y, squareSize, canvas.height)
        /\ LET cx == CellBegin(gridOffset.x, squareSize, c[1]) + squareSize \div 2
               cy == CellBegin(gridOffset.y, squareSize, c[2]) + squareSize \div 2
           IN 0 <= cx /\ cx < canvas.width /\ 0 <= cy /\ cy < canvas.height }

\* a mousemove event on the canvas, at the pixel centre of a drawn cell
MouseMoveToCentre ==
    /\ "mousemove" \in listeners
    /\ \E c \in CentreCells :
         LET ev == [clientX |-> rect.left + CellBegin(gridOffset.x, squareSize, c[1])
                                + squareSize \div 2,
                    clientY |-> rect.top + CellBegin(gridOffset.y, squareSize, c[2])
                                + squareSize \div 2]
         IN /\ hoveredSquare' = HoveredCell(ev, rect, gridOffset, squareSize)
            /\ pointer' = [on |-> TRUE, x |-> ev.clientX, y |-> ev.clientY,
                           i |-> c[1], j |-> c[2], draws |-> 0]
    /\ UNCHANGED <<direction, speed, squareSize, numSquaresX, numSquaresY, gridOffset,
                   animationId, canvas, rect, listeners, rafPending, rafNext, lastDraw,
                   stopped, destroyed, restarted, resized>>
    /\ UNCHANGED <<swVars, pageVars>>

\* a mouseleave event on the canvas
MouseLeave ==
    /\ IF "mouseleave" \in listeners THEN hoveredSquare' = NoSquare ELSE UNCHANGED hoveredSquare
    /\ pointer' = NoPointer
    /\ UNCHANGED <<direction, speed, squareSize, numSquaresX, numSquaresY, gridOffset,
                   animationId, canvas, rect, listeners, rafPending, rafNext, lastDraw,
                   stopped, destroyed, restarted, resized>>
    /\ UNCHANGED <<swVars, pageVars>>

\* the viewport is resized: the canvas box changes and a resize event is dispatched
Resize ==
    /\ \E r \in Rects : rect' = r
    /\ IF "resize" \in listeners
       THEN /\ canvas' = [width |-> rect'.width, height |-> rect'.height]
            /\ numSquaresX' = NumSquares(canvas'.width, squareSize)
            /\ numSquaresY' = NumSquares(canvas'.height, squareSize)
       ELSE UNCHANGED <<canvas, numSquaresX, numSquaresY>>
    /\ resized' = (resized \/ "resize" \in listeners)
    /\ pointer' = NoPointer
    /\ UNCHANGED <<direction, speed, squareSize, gridOffset, hoveredSquare, animationId,
                   listeners, rafPending, rafNext, lastDraw, stopped, destroyed, restarted>>
    /\ UNCHANGED <<swVars, pageVars>>

GridNext ==
    \/ AnimationFrame
    \/ startAnimation
    \/ stopAnimation
    \/ destroy
    \/ MouseMove
    \/ MouseMoveToCentre
    \/ MouseLeave
    \/ Resize

\* =========================================================================
\* Service worker (sw.js)
\* =========================================================================

Versions == {1, 2}     \* deployed versions of sw.js; they differ in CACHE_NAME only

\* const CACHE_NAME = 'habibibloxberg-v1' in version 1; the tag is bumped per deploy
CACHE_NAME(v) == IF v = 1 THEN "habibibloxberg-v1" ELSE "habibibloxberg-v2"
StaleName == "habibibloxberg-v0"

SelfOrigin == "https://habibi.example"     \* self.location.origin

urlsToCache == <<
    "/",
    "/index-improved.html",
    "/style-improved.css",
    "/script-improved.js",
    "/spiral-animation.js",
    "https://fonts.googleapis.com/css2?family=Inter:wght@400;500;600;700;800&family=JetBrains+Mono:wght@400;500&display=swap" >>

\* String.prototype.includes
Includes(s, t) == \E i \in 1..(Len(s) - Len(t) + 1) : SubSeq(s, i, i + Len(t) - 1) = t

\* new URL(u): where the scheme ends and where the host ends
SchemeEnd(u) == CHOOSE i \in 1..Len(u) :
                  /\ SubSeq(u, i, i + 2) = "://"
                  /\ \A j \in 1..(i - 1) : SubSeq(u, j, j + 2) # "://"
HostEnd(u) == LET from == SchemeEnd(u) + 3
                  Slashes == { j \in from..Len(u) : SubSeq(u, j, j) = "/" }
              IN IF Slashes = {} THEN Len(u) + 1
                 ELSE CHOOSE j \in Slashes : \A k \in Slashes : j <= k
UrlOrigin(u) == SubSeq(u, 1, HostEnd(u) - 1)
UrlHostname(u) == SubSeq(u, SchemeEnd(u) + 3, HostEnd(u) - 1)

\* a manifest entry resolved against the worker's location
Resolve(u) == IF SubSeq(u, 1, 1) = "/" THEN SelfOrigin \o u ELSE u
ManifestUrls == { Resolve(urlsToCache[i]) : i \in 1..Len(urlsToCache) }

\* the manifest fetches that fail during an install: none, the first, or the last
SeedFailures == {{}} \cup { {Resolve(urlsToCache[i])} : i \in {1, Len(urlsToCache)} }

\* the requests the page issues in the model
GstaticUrl == "https://fonts.gstatic.com/s/inter.woff2"
Requests == {
    [method |-> "GET",  url |-> "https://habibi.example/style-improved.css"],
    [method |-> "GET",  url |-> GstaticUrl],
    [method |-> "GET",  url |-> "https://cdn.example.net/lib.js"],
    [method |-> "POST", url |-> "https://habibi.example/visit"] }

\* responses; a missing response (null) is the record NullResponse
NullResponse == [status |-> 0, type |-> "null", body |-> ""]
Ok(b) == [status |-> 200, type |-> "basic", body |-> b]
Bodies == {"a", "b"}
\* what fetch() can produce: a network error, or a response
NetOutcomes ==
    { [error |-> TRUE, resp |-> NullResponse] } \cup
    { [error |-> FALSE, resp |-> r] :
        r \in { Ok(b) : b \in Bodies } \cup
              { NullResponse,
                [status |-> 404, type |-> "basic", body |-> "a"],
                [status |-> 0, type |-> "opaque", body |-> "a"] } }

\* a fetch listener without the origin check
IsAllowedOrigin_Any(u) == TRUE

\* isAllowedOrigin of the fetch listener
IsAllowedOrigin(u) ==
    \/ UrlOrigin(u) = SelfOrigin
    \/ Includes(UrlHostname(u), "googleapis.com")
    \/ Includes(UrlHostname(u), "gstatic.com")
    \/ Includes(UrlHostname(u), "fontawesome.com")

\* the two early returns of the fetch listener
Intercepts(req) == req.method = "GET" /\ IsAllowedOrigin(req.url)

\* a response validation without the status check
IsCacheable_NoStatus(resp) == ~(resp = NullResponse \/ resp.type = "opaque")

\* the response validation of the fetch listener: TRUE when the response is cached
IsCacheable(resp) == ~(resp = NullResponse \/ resp.status # 200 \/ resp.type = "opaque")

\* ------------------------------------------------------ CacheStorage
CacheIndex(cs, name) == { i \in 1..Len(cs) : cs[i].name = name }
HasCache(cs, name) == CacheIndex(cs, name) # {}

\* caches.open(name): the cache is created when it does not exist
OpenCache(cs, name, id) ==
    IF HasCache(cs, name) THEN cs ELSE Append(cs, [name |-> name, id |-> id, entries |-> <<>>])
OpenedId(cs, name, id) ==
    IF HasCache(cs, name) THEN cs[CHOOSE i \in CacheIndex(cs, name) : TRUE].id ELSE id

\* caches.delete(name)
DeleteCache(cs, name) == SelectSeq(cs, LAMBDA c : c.name # name)

\* caches.match(request): the first cache, in creation order, that holds the key
MatchIndex(cs, url) ==
    LET Hits == { i \in 1..Len(cs) : url \in DOMAIN cs[i].entries }
    IN IF Hits = {} THEN 0 ELSE CHOOSE i \in Hits : \A j \in Hits : i <= j

\* a cache.put that stores nothing
CachePut_Dropped(cs, id, url, resp) == cs

\* cache.put(request, response) on the cache object with identity id
CachePut(cs, id, url, resp) ==
    [ i \in 1..Len(cs) |->
        IF cs[i].id = id
        THEN [cs[i] EXCEPT !.entries =
                [ k \in (DOMAIN cs[i].entries) \cup {url} |->
                    IF k = url THEN resp ELSE cs[i].entries[k] ]]
        ELSE cs[i] ]

\* a cache.addAll that stores each response as it arrives
CacheAddAll_Partial(cs, id, urls, failed, resp) ==
    [ i \in 1..Len(cs) |->
        IF cs[i].id = id
        THEN [cs[i] EXCEPT !.entries =
                [ k \in (DOMAIN cs[i].entries) \cup (urls \ failed) |->
                    IF k \in urls THEN resp ELSE cs[i].entries[k] ]]
        ELSE cs[i] ]

\* cache.addAll(urls): every URL is fetched; one failure rejects and stores nothing
CacheAddAll(cs, id, urls, failed, resp) ==
    IF failed # {} THEN cs
    ELSE [ i \in 1..Len(cs) |->
            IF cs[i].id = id
            THEN [cs[i] EXCEPT !.entries =
                    [ k \in (DOMAIN cs[i].entries) \cup urls |->
                        IF k \in urls THEN resp ELSE cs[i].entries[k] ]]
            ELSE cs[i] ]

\* an activate listener with the whitelist test inverted
NamesToDelete_Inverted(names, v) == { n \in names : n = CACHE_NAME(v) }

\* the names the activate listener deletes: those not in cacheWhitelist
NamesToDelete(names, v) == { n \in names : n # CACHE_NAME(v) }

\* ------------------------------------------------------ fetch events
NoAnswer == [state |-> "none", resp |-> NullResponse]
Resolved(r) == [state |-> "resolved", resp |-> r]
Rejected == [state |-> "rejected", resp |-> NullResponse]

NewEvent(v, req, evs) ==
    [ worker |-> v, request |-> req,
      pc |-> IF Intercepts(req) THEN "matching" ELSE "passthrough",
      answer |-> NoAnswer,
      hit |-> "",               \* name of the cache that answered
      net |-> 0,                \* network fetches the handler performed
      netResp |-> NullResponse, \* what the network fetch produced
      cacheId |-> 0,            \* identity of the cache opened for the put
      \* earlier events for the same request answered from the network with a
      \* cacheable response, with no cache deleted since
      prior |-> { i \in 1..Len(evs) :
                    /\ evs[i].request = req
                    /\ evs[i].net = 1 /\ evs[i].answer.state = "resolved"
                    /\ IsCacheable(evs[i].netResp)
                    /\ ~evs[i].deletedAfter },
      \* those of them whose write-behind put had completed
      stored |-> { i \in 1..Len(evs) :
                    /\ evs[i].request = req
                    /\ evs[i].pc = "putDone"
                    /\ ~evs[i].deletedAfter },
      deletedAfter |-> FALSE ]

\* the fetch handler once fetch() has settled
AfterNetwork(e, out) ==
    IF out.error
    THEN [e EXCEPT !.pc = "done", !.answer = Rejected]
    ELSE IF ~IsCacheable(out.resp)
    THEN [e EXCEPT !.pc = "done", !.answer = Resolved(out.resp), !.netResp = out.resp]
    ELSE [e EXCEPT !.pc = "opening", !.answer = Resolved(out.resp), !.netResp = out.resp]

\* a handler that chains the put into the response promise
AfterPutFailure_Rejects(e) == [e EXCEPT !.pc = "putFailed", !.answer = Rejected]

\* the event once its write-behind caches.open / cache.put has rejected
AfterPutFailure(e) == [e EXCEPT !.pc = "putFailed"]

\* bookkeeping of a cache deletion in the events' history
NoteDeletion(evs) ==
    [ i \in 1..Len(evs) |->
        [evs[i] EXCEPT !.deletedAfter = (evs[i].answer.state # "none"),
                       !.prior = IF evs[i].pc = "matching" THEN {} ELSE @,
                       !.stored = IF evs[i].pc = "matching" THEN {} ELSE @] ]

NoActivation == [todo |-> {}, snapshot |-> {}, ownId |-> 0, ownEntries |-> <<>>]

\* the worker script before its first install, over the caches of `Stores`
SwStart(Stores) ==
    /\ caches \in Stores
    /\ cacheNext = Len(caches) + 1
    /\ phase = [v \in Versions |-> "new"]
    /\ activation = [v \in Versions |-> NoActivation]
    /\ seedFailed = [v \in Versions |-> {}]
    /\ events = <<>>

\* a browser profile without caches, and one holding a generation of an older deploy
InitialStores == { <<>>,
                   << [name |-> StaleName, id |-> 1,
                       entries |-> [k \in {GstaticUrl} |-> Ok("a")]] >> }

\* install listener, first half: caches.open(CACHE_NAME)
InstallOpen(v) ==
    /\ phase[v] = "new"
    /\ \A w \in Versions : w < v => phase[w] \in {"activated", "failed", "redundant"}
    /\ caches' = OpenCache(caches, CACHE_NAME(v), cacheNext)
    /\ cacheNext' = IF HasCache(caches, CACHE_NAME(v)) THEN cacheNext ELSE cacheNext + 1
    /\ phase' = [phase EXCEPT ![v] = "installing"]
    /\ UNCHANGED <<activation, seedFailed, events>>
    /\ UNCHANGED <<gridVars, pageVars>>

\* install listener, second half: cache.addAll(urlsToCache) settles
InstallAddAll(v) ==
    /\ phase[v] = "installing"
    /\ HasCache(caches, CACHE_NAME(v))
    /\ \E failed \in SeedFailures :
         /\ caches' = CacheAddAll(caches, OpenedId(caches, CACHE_NAME(v), 0),
                                  ManifestUrls, failed, Ok("a"))
         /\ phase' = [phase EXCEPT ![v] = IF failed = {} THEN "installed" ELSE "failed"]
         /\ seedFailed' = [seedFailed EXCEPT ![v] = failed]
    /\ UNCHANGED <<cacheNext, activation, events>>
    /\ UNCHANGED <<gridVars, pageVars>>

\* activate listener: caches.keys() resolves and the deletions are issued
ActivateStart(v) ==
    /\ phase[v] = "installed"
    /\ phase' = [w \in Versions |->
                   IF w = v THEN "activating"
                   ELSE IF phase[w] = "activated" THEN "redundant" ELSE phase[w]]
    /\ LET names == { caches[i].name : i \in 1..Len(caches) }
           own == CacheIndex(caches, CACHE_NAME(v))
       IN activation' = [activation EXCEPT ![v] =
            [ todo |-> NamesToDelete(names, v),
              snapshot |-> { caches[i].id : i \in { j \in 1..Len(caches) :
                                                      caches[j].name # CACHE_NAME(v) } },
              ownId |-> IF own = {} THEN 0 ELSE caches[CHOOSE i \in own : TRUE].id,
              ownEntries |-> IF own = {} THEN <<>>
                             ELSE caches[CHOOSE i \in own : TRUE].entries ]]
    /\ UNCHANGED <<caches, cacheNext, seedFailed, events>>
    /\ UNCHANGED <<gridVars, pageVars>>

\* one caches.delete(cacheName) of the activate listener settles
ActivateDelete(v) ==
    /\ phase[v] = "activating"
    /\ \E n \in activation[v].todo :
         /\ caches' = DeleteCache(caches, n)
         /\ activation' = [activation EXCEPT ![v].todo = @ \ {n}]
    /\ events' = NoteDeletion(events)
    /\ UNCHANGED <<cacheNext, phase, seedFailed>>
    /\ UNCHANGED <<gridVars, pageVars>>

\* Promise.all of the activate listener resolves
ActivateDone(v) ==
    /\ phase[v] = "activating"
    /\ activation[v].todo = {}
    /\ phase' = [phase EXCEPT ![v] = "activated"]
    /\ UNCHANGED <<caches, cacheNext, activation, seedFailed, events>>
    /\ UNCHANGED <<gridVars, pageVars>>

\* a fetch event is dispatched to the active worker; the listener runs its guards
FetchEvent(v) ==
    /\ phase[v] = "activated"
    /\ Len(events) < MaxEvents
    /\ \E req \in Requests : events' = Append(events, NewEvent(v, req, events))
    /\ UNCHANGED <<caches, cacheNext, phase, activation, seedFailed>>
    /\ UNCHANGED <<gridVars, pageVars>>

\* caches.match(event.request) resolves
FetchMatch(i) ==
    /\ events[i].pc = "matching"
    /\ LET m == MatchIndex(caches, events[i].request.url) IN
         events' = [events EXCEPT ![i] =
            IF m # 0
            THEN [@ EXCEPT !.pc = "done",
                           !.answer = Resolved(caches[m].entries[events[i].request.url]),
                           !.hit = caches[m].name]
            ELSE [@ EXCEPT !.pc = "fetching", !.net = @ + 1]]
    /\ UNCHANGED <<caches, cacheNext, phase, activation, seedFailed>>
    /\ UNCHANGED <<gridVars, pageVars>>

\* fetch(fetchRequest) settles
FetchNetwork(i) ==
    /\ events[i].pc = "fetching"
    /\ \E out \in NetOutcomes : events' = [events EXCEPT ![i] = AfterNetwork(@, out)]
    /\ UNCHANGED <<caches, cacheNext, phase, activation, seedFailed>>
    /\ UNCHANGED <<gridVars, pageVars>>

\* the write-behind caches.open(CACHE_NAME) resolves
FetchPutOpen(i) ==
    /\ events[i].pc = "opening"
    /\ LET name == CACHE_NAME(events[i].worker) IN
         /\ caches' = OpenCache(caches, name, cacheNext)
         /\ cacheNext' = IF HasCache(caches, name) THEN cacheNext ELSE cacheNext + 1
         /\ events' = [events EXCEPT ![i].pc = "putting",
                                     ![i].cacheId = OpenedId(caches, name, cacheNext)]
    /\ UNCHANGED <<phase, activation, seedFailed>>
    /\ UNCHANGED <<gridVars, pageVars>>

\* the write-behind cache.put(event.request, responseToCache) completes
FetchPutDone(i) ==
    /\ events[i].pc = "putting"
    /\ caches' = CachePut(caches, events[i].cacheId, events[i].request.url, events[i].netResp)
    /\ events' = [events EXCEPT ![i].pc = "putDone"]
    /\ UNCHANGED <<cacheNext, phase, activation, seedFailed>>
    /\ UNCHANGED <<gridVars, pageVars>>

\* the write-behind caches.open or cache.put rejects (quota, storage error)
FetchPutFail(i) ==
    /\ events[i].pc \in {"opening", "putting"}
    /\ events' = [events EXCEPT ![i] = AfterPutFailure(@)]
    /\ UNCHANGED <<caches, cacheNext, phase, activation, seedFailed>>
    /\ UNCHANGED <<gridVars, pageVars>>

SwNext ==
    \/ \E v \in Versions : InstallOpen(v)
    \/ \E v \in Versions : InstallAddAll(v)
    \/ \E v \in Versions : ActivateStart(v)
    \/ \E v \in Versions : ActivateDelete(v)
    \/ \E v \in Versions : ActivateDone(v)
    \/ \E v \in Versions : FetchEvent(v)
    \/ \E i \in 1..Len(events) : FetchMatch(i)
    \/ \E i \in 1..Len(events) : FetchNetwork(i)
    \/ \E i \in 1..Len(events) : FetchPutOpen(i)
    \/ \E i \in 1..Len(events) : FetchPutDone(i)
    \/ \E i \in 1..Len(events) : FetchPutFail(i)

\* =========================================================================
\* Two frame updates with complementary speeds
\* =========================================================================

\* the largest squareSize the round trips are run with (twentieths of a pixel)
MaxTripSize == 6

\* no round trip under way
NoTrip == [direction |-> "", squareSize |-> 0, speed |-> 0,
           gridOffset |-> [x |-> 0, y |-> 0],
           s |-> 0, start |-> [x |-> 0, y |-> 0], step |-> 0]

\* an instance moving along one axis, about to run a frame update with speed s
\* from an offset inside [0, squareSize)
TripStart(Dirs, Sizes) ==
    \E d \in Dirs, q \in Sizes :
      \E s \in 1..(q - 1), ox \in 0..(q - 1), oy \in 0..(q - 1) :
        trip = [direction |-> d, squareSize |-> q, speed |-> s,
                gridOffset |-> [x |-> ox, y |-> oy],
                s |-> s, start |-> [x |-> ox, y |-> oy], step |-> 0]

\* updateConfig({speed: squareSize - s}): Object.assign overwrites the field
UpdateConfigSpeed(t, newSpeed) == [t EXCEPT !.speed = newSpeed]

\* one frame update of the instance (the first and the third step)
TripFrame ==
    /\ trip.step \in {0, 2}
    /\ trip' = [trip EXCEPT
                  !.gridOffset = UpdateOffset(trip.direction, trip.speed,
                                              trip.squareSize, trip.gridOffset),
                  !.step = @ + 1]
    /\ UNCHANGED <<gridVars, swVars, bgVars, navVars>>

\* updateConfig between the two frames (the second step)
TripUpdateConfig ==
    /\ trip.step = 1
    /\ trip' = [UpdateConfigSpeed(trip, trip.squareSize - trip.s) EXCEPT !.step = 2]
    /\ UNCHANGED <<gridVars, swVars, bgVars, navVars>>

TripNext ==
    \/ TripFrame
    \/ TripUpdateConfig

\* =========================================================================
\* The page's background instance (initSpiralBackground)
\* =========================================================================

\* the most instances the page creates
MaxInits == 3
\* the largest frame-request id whose callback the host runs
MaxFrameId == 7

\* speed: 0.8 in the options initSpiralBackground passes
PageSpeed == 16
\* the speeds updateAnimationSettings is called with (1 px, 2 px)
SettingsSpeeds == {20, 40}

\* let squaresAnimationInstance = null
NoInstance == 0

\* new SquaresAnimation(canvas, options), as far as requests and listeners go:
\* startAnimation has requested the frame `id`, setupEventListeners attached three
NewInstance(id) ==
    [animationId |-> id, pending |-> {id},
     listeners |-> {"mousemove", "mouseleave", "resize"},
     speed |-> PageSpeed]

\* instance.destroy()
Destroyed(inst) ==
    [inst EXCEPT
       !.animationId = StopResult(inst.animationId, inst.pending).animationId,
       !.pending = StopResult(inst.animationId, inst.pending).pending,
       !.listeners = RemoveListeners(inst.listeners)]

\* initSpiralBackground that does not clean up the instance it replaces
InitSpiralBackground_NoDestroy(insts, cur, id) ==
    [instances |-> Append(insts, NewInstance(id)), current |-> Len(insts) + 1]

\* initSpiralBackground with the canvas present: the instances and the one held
InitSpiralBackground(insts, cur, id) ==
    [instances |-> Append(IF cur # NoInstance THEN [insts EXCEPT ![cur] = Destroyed(@)]
                                              ELSE insts,
                          NewInstance(id)),
     current |-> Len(insts) + 1]

\* the page as its script starts
BackgroundStart(Present) ==
    /\ canvasPresent \in Present
    /\ squaresAnimationInstance = NoInstance
    /\ instances = <<>>
    /\ frameNext = 1
    /\ lastInit = "none"

\* a call of initSpiralBackground()
initSpiralBackground ==
    /\ IF ~canvasPresent
       THEN /\ lastInit' = "aborted"      \* console.error, return
            /\ UNCHANGED <<squaresAnimationInstance, instances, frameNext>>
       ELSE /\ Len(instances) < MaxInits
            /\ instances' = InitSpiralBackground(instances, squaresAnimationInstance,
                                                 frameNext).instances
            /\ squaresAnimationInstance' =
                   InitSpiralBackground(instances, squaresAnimationInstance,
                                        frameNext).current
            /\ frameNext' = frameNext + 1
            /\ lastInit' = "created"
    /\ UNCHANGED canvasPresent
    /\ UNCHANGED <<gridVars, swVars, tripVars, navVars>>

\* the page's document gains or loses the background canvas
CanvasChange ==
    /\ canvasPresent' = ~canvasPresent
    /\ UNCHANGED <<squaresAnimationInstance, instances, frameNext, lastInit>>
    /\ UNCHANGED <<gridVars, swVars, tripVars, navVars>>

\* the host runs a pending frame request of instance i: updateAnimation requests
\* the next frame
InstanceFrame(i) ==
    /\ frameNext <= MaxFrameId
    /\ \E id \in instances[i].pending :
         instances' = [instances EXCEPT ![i] =
                          [@ EXCEPT !.animationId = frameNext,
                                    !.pending = (@ \ {id}) \cup {frameNext}]]
    /\ frameNext' = frameNext + 1
    /\ UNCHANGED <<squaresAnimationInstance, canvasPresent, lastInit>>
    /\ UNCHANGED <<gridVars, swVars, tripVars, navVars>>

\* updateAnimationSettings({speed: sp}): updateConfig on the instance held, if any
updateAnimationSettings ==
    /\ \E sp \in SettingsSpeeds :
         instances' = IF squaresAnimationInstance # NoInstance
                      THEN [instances EXCEPT ![squaresAnimationInstance].speed = sp]
                      ELSE instances
    /\ UNCHANGED <<squaresAnimationInstance, canvasPresent, frameNext, lastInit>>
    /\ UNCHANGED <<gridVars, swVars, tripVars, navVars>>

BackgroundNext ==
    \/ initSpiralBackground
    \/ updateAnimationSettings
    \/ CanvasChange
    \/ \E i \in 1..Len(instances) : InstanceFrame(i)

\* =========================================================================
\* Page navigation (script-improved.js)
\* =========================================================================

\* the most navigateTo calls made
MaxNavs == 3

\* the keys of `pages` in navigateTo; each has its content element in the document
Pages == {"home", "about", "projects"}

\* state.currentPage as declared, the content element of that page being the
\* active one
NavStart(First) ==
    /\ currentPage \in First
    /\ active = {currentPage}
    /\ timers = <<>>
    /\ history = <<>>
    /\ navCalls = 0

\* navigateTo(page, updateHistory)
NavigateTo(page, updateHistory) ==
    /\ navCalls < MaxNavs
    /\ navCalls' = navCalls + 1
    /\ IF currentPage = page
       THEN UNCHANGED <<active, timers, history>>
       ELSE /\ history' = IF updateHistory THEN Append(history, page) ELSE history
            /\ active' = active \ {currentPage}
            /\ timers' = Append(timers, page)       \* setTimeout(..., 300)
    /\ UNCHANGED currentPage

\* a click on a [data-page] link
NavClick ==
    /\ \E page \in Pages : NavigateTo(page, TRUE)
    /\ UNCHANGED <<gridVars, swVars, tripVars, bgVars>>

\* popstate (browser back/forward) to an entry pushed earlier
NavPopState ==
    /\ \E k \in 1..Len(history) : NavigateTo(history[k], FALSE)
    /\ UNCHANGED <<gridVars, swVars, tripVars, bgVars>>

\* the oldest transition timer fires (all have the same delay)
NavTimer ==
    /\ timers # <<>>
    /\ active' = active \cup {Head(timers)}
    /\ currentPage' = Head(timers)
    /\ timers' = Tail(timers)
    /\ UNCHANGED <<history, navCalls>>
    /\ UNCHANGED <<gridVars, swVars, tripVars, bgVars>>

NavNext ==
    \/ NavClick
    \/ NavPopState
    \/ NavTimer

\* =========================================================================
\* Specifications
\* =========================================================================

\* the grid renderer on its own (the worker runs in another execution context and
\* has not been installed)
InitGrid ==
    /\ GridStart(OptDirections, OptSpeeds, OptSquareSizes, Rects)
    /\ SwStart({<<>>})
    /\ trip = NoTrip
    /\ BackgroundStart({TRUE})
    /\ NavStart({"home"})

SpecGrid == InitGrid /\ [][GridNext]_vars

\* the service worker on its own, beside the instance initSpiralBackground creates:
\* diagonal, 0.8 px per frame, 40 px squares
InitSW ==
    /\ GridStart({"diagonal"}, {PageSpeed}, {800}, {[left |-> 0, top |-> 0, width |-> 7, height |-> 5]})
    /\ SwStart(InitialStores)
    /\ trip = NoTrip
    /\ BackgroundStart({TRUE})
    /\ NavStart({"home"})

SpecSW == InitSW /\ [][SwNext]_vars

\* the page's instance (as in InitSW) taken through a frame, updateConfig and a frame
InitTrip ==
    /\ GridStart({"diagonal"}, {PageSpeed}, {800}, {[left |-> 0, top |-> 0, width |-> 7, height |-> 5]})
    /\ SwStart({<<>>})
    /\ TripStart({"right", "left", "up", "down"}, 3..MaxTripSize)
    /\ BackgroundStart({TRUE})
    /\ NavStart({"home"})

SpecTrip == InitTrip /\ [][TripNext]_vars

\* the page before its first initSpiralBackground() call, with or without the
\* background canvas in the document
InitBackground ==
    /\ GridStart({"diagonal"}, {PageSpeed}, {800}, {[left |-> 0, top |-> 0, width |-> 7, height |-> 5]})
    /\ SwStart({<<>>})
    /\ trip = NoTrip
    /\ BackgroundStart(BOOLEAN)
    /\ NavStart({"home"})

SpecBackground == InitBackground /\ [][BackgroundNext]_vars

\* the page after DOMContentLoaded, showing the home page
InitNav ==
    /\ GridStart({"diagonal"}, {PageSpeed}, {800}, {[left |-> 0, top |-> 0, width |-> 7, height |-> 5]})
    /\ SwStart({<<>>})
    /\ trip = NoTrip
    /\ BackgroundStart({TRUE})
    /\ NavStart({"home"})

SpecNav == InitNav /\ [][NavNext]_vars

\* =========================================================================
\* Properties of the grid renderer (checked under SpecGrid)
\* =========================================================================

ConfiguredAsClaimed ==
    /\ direction \in {"right", "left", "up", "down", "diagonal"}
    /\ speed > 0
    /\ squareSize > 0

\* C1: for every direction, every speed > 0 and every squareSize > 0, after any
\* number of frame updates both offset components lie in [0, squareSize).
C1_OffsetInRange ==
    ConfiguredAsClaimed =>
        /\ 0 <= gridOffset.x /\ gridOffset.x < squareSize
        /\ 0 <= gridOffset.y /\ gridOffset.y < squareSize

\* C9: once stopAnimation() has returned and until startAnimation() is called
\* again, no frame request of the instance is pending, animationId is null, and
\* no step advances the offset or redraws the grid.
C9_NoFrameAfterStop ==
    [][ /\ stopped' => (rafPending' = {} /\ animationId' = NullId)
        /\ (stopped /\ stopped') => (gridOffset' = gridOffset /\ lastDraw' = lastDraw) ]_vars

\* frames ran, then the animation was stopped (not destroyed)
C9_Witness == stopped /\ ~destroyed /\ rafNext > 3

C11_ResizeRecomputesCounts ==
    [][ ("resize" \in listeners /\ (rect' # rect \/ resized' # resized)) =>
          /\ (numSquaresX' - 2) * squareSize < rect'.width
          /\ rect'.width <= (numSquaresX' - 1) * squareSize
          /\ (numSquaresY' - 2) * squareSize < rect'.height
          /\ rect'.height <= (numSquaresY' - 1) * squareSize
          /\ gridOffset' = gridOffset /\ hoveredSquare' = hoveredSquare
          /\ direction' = direction /\ speed' = speed
          /\ animationId' = animationId /\ rafPending' = rafPending ]_vars

\* a resize was handled while a cell was hovered and a frame was pending
C11_Witness == resized /\ hoveredSquare.some /\ rafPending # {} /\ rafNext > 2

\* the hovered cell handleMouseMove computes for a pointer at distance (dx, dy)
\* from the corner of the drawn cell (i, j)
HoverAt(i, j, dx, dy) ==
    HoveredCell([clientX |-> rect.left + CellBegin(gridOffset.x, squareSize, i) + dx,
                 clientY |-> rect.top + CellBegin(gridOffset.y, squareSize, j) + dy],
                rect, gridOffset, squareSize)

\* the whole coordinates next to the middle of a square (the middle itself when
\* squareSize is even)
Middle == {squareSize \div 2, (squareSize + 1) \div 2}

\* C12, first half: at every reachable offset, a pointer at the pixel centre of a
\* drawn cell (i, j) makes handleMouseMove compute exactly (i, j).
C12_CentreMapsToCell ==
    \A i \in DrawnIndices(gridOffset.x, squareSize, canvas.width),
       j \in DrawnIndices(gridOffset.y, squareSize, canvas.height) :
        \A dx \in Middle, dy \in Middle :
            HoverAt(i, j, dx, dy) = [some |-> TRUE, x |-> i, y |-> j]

\* the rectangle filled with the hover colour by the last draw covers the pointer
FilledUnderPointer ==
    \E f \in lastDraw.fill :
        /\ f.x <= pointer.x - rect.left /\ pointer.x - rect.left < f.x + squareSize
        /\ f.y <= pointer.y - rect.top /\ pointer.y - rect.top < f.y + squareSize

\* C12: a pointer-move at the pixel centre of a drawn cell (i, j) sets
\* hoveredSquare to (i, j), and the cell the next draw fills with the hover colour
\* is the one under the pointer.
C12_HoverFollowsPointer ==
    /\ C12_CentreMapsToCell
    /\ pointer.on => hoveredSquare = [some |-> TRUE, x |-> pointer.i, y |-> pointer.j]
    /\ (pointer.on /\ pointer.draws = 1) => FilledUnderPointer

\* C14: at most one animation-frame request of the instance is pending, and
\* animationId is its id, or null when none is pending.
C14_SinglePendingFrame ==
    /\ Cardinality(rafPending) <= 1
    /\ \/ rafPending = {animationId}
       \/ rafPending = {} /\ animationId = NullId

\* frames ran, the instance was destroyed and started again
C14_Witness == restarted /\ rafPending = {animationId} /\ rafNext > 4

\* =========================================================================
\* Properties of the service worker (checked under SpecSW)
\* =========================================================================

EventIds == 1..Len(events)
PutStages == {"opening", "putting", "putDone", "putFailed"}

\* the origins the specification lets the proxy handle
AllowListed(u) ==
    \/ UrlOrigin(u) = SelfOrigin
    \/ \E h \in {"googleapis.com", "gstatic.com", "fontawesome.com"} :
          Includes(UrlHostname(u), h)

\* the URLs of the model that the specification lets the proxy handle
UrlUniverse == ManifestUrls \cup { r.url : r \in Requests }
AllowListedUrls == { u \in UrlUniverse : AllowListed(u) }

\* C2 as stated: a fetch event dispatched after an earlier event for the same
\* request was answered from the network with a cacheable response, no cache
\* having been deleted in between, performs no network fetch.
C2_SecondAfterAnswer ==
    \A i \in EventIds : events[i].prior # {} => events[i].net = 0

\* C2 amended: a fetch event dispatched after the write-behind cache.put of an
\* earlier event for the same request has completed, no cache having been deleted
\* in between, performs no network fetch and is answered from the cache.
C2_SecondAfterStore ==
    \A i \in EventIds :
        events[i].stored # {} =>
            /\ events[i].net = 0
            /\ events[i].pc \in {"matching", "done"}
            /\ events[i].pc = "done" =>
                  (events[i].hit # "" /\ events[i].answer.state = "resolved")

C2_Witness ==
    \E i \in EventIds : events[i].stored # {} /\ events[i].pc = "done" /\ events[i].hit # ""

\* C3: the cache store never holds an entry for a URL that is neither same-origin
\* nor on an allow-listed host, and an event whose request is not GET or not to
\* such an origin is left alone: not answered, no network fetch, no cache write.
C3_OnlyAllowedGetCached ==
    /\ \A c \in 1..Len(caches) : \A k \in DOMAIN caches[c].entries : k \in AllowListedUrls
    /\ \A i \in EventIds :
          (events[i].request.method # "GET" \/ events[i].request.url \notin AllowListedUrls) =>
              /\ events[i].pc = "passthrough"
              /\ events[i].answer = NoAnswer
              /\ events[i].net = 0
              /\ events[i].cacheId = 0

C3_Witness ==
    \E i, j \in EventIds :
        /\ events[i].request.method = "POST" /\ events[i].pc = "passthrough"
        /\ events[j].request.method = "GET" /\ events[j].request.url \notin AllowListedUrls
        /\ events[j].pc = "passthrough"

\* C4: when the activate handler completes, every generation it enumerated under
\* a tag other than CACHE_NAME has been deleted, and the generation tagged
\* CACHE_NAME is still present with the entries it had when activation began.
C4_ActivateKeepsOnlyCurrent ==
    [][ \A v \in Versions :
          (phase[v] = "activating" /\ phase'[v] = "activated") =>
             /\ \A c \in 1..Len(caches') : caches'[c].id \notin activation[v].snapshot
             /\ activation[v].ownId # 0
             /\ \E c \in 1..Len(caches') :
                   /\ caches'[c].id = activation[v].ownId
                   /\ caches'[c].name = CACHE_NAME(v)
                   /\ caches'[c].entries = activation[v].ownEntries ]_vars

\* an activation that found two generations under other tags has completed
C4_Witness ==
    \E v \in Versions :
        /\ phase[v] = "activated"
        /\ Cardinality(activation[v].snapshot) = 2
        /\ HasCache(caches, CACHE_NAME(v))

\* C5: if the fetch of a manifest URL fails, the install fails, the version stays
\* failed (it never activates), and its generation holds no entry.
C5_InstallAllOrNothing ==
    \A v \in Versions :
        seedFailed[v] # {} =>
            /\ phase[v] = "failed"
            /\ \A c \in 1..Len(caches) :
                  caches[c].name = CACHE_NAME(v) => DOMAIN caches[c].entries = {}

C5_Witness ==
    \E v \in Versions : seedFailed[v] # {} /\ HasCache(caches, CACHE_NAME(v))

\* C6: an event answered from the cache is answered from the generation tagged
\* CACHE_NAME of the worker that handles it, without a network fetch.
C6_HitFromCurrentGeneration ==
    \A i \in EventIds :
        events[i].hit # "" =>
            /\ events[i].hit = CACHE_NAME(events[i].worker)
            /\ events[i].net = 0

\* C7: a network response that is missing, not 200 or opaque is returned as it is
\* and never reaches the write-behind store; every stored entry is a 200
\* response that is not opaque.
C7_OnlyValidResponsesCached ==
    /\ \A i \in EventIds :
          /\ events[i].pc \in PutStages =>
                (events[i].netResp.status = 200 /\ events[i].netResp.type \notin {"opaque", "null"})
          /\ (events[i].net = 1 /\ events[i].answer.state = "resolved") =>
                events[i].answer.resp = events[i].netResp
    /\ \A c \in 1..Len(caches) : \A k \in DOMAIN caches[c].entries :
          caches[c].entries[k].status = 200 /\ caches[c].entries[k].type # "opaque"

\* a 404 was handed back to the caller while the store holds entries
C7_Witness ==
    /\ \E i \in EventIds :
          /\ events[i].net = 1 /\ events[i].pc = "done"
          /\ events[i].answer.state = "resolved" /\ events[i].answer.resp.status = 404
    /\ \E i \in EventIds : events[i].pc = "putDone"

\* C8: from the moment the network fetch of a cache miss has produced a cacheable
\* response, the event is answered with that response, whether the write-behind
\* store is still running, has completed or has failed.
C8_StoreNeverAffectsAnswer ==
    \A i \in EventIds :
        events[i].pc \in PutStages => events[i].answer = Resolved(events[i].netResp)

C8_Witness ==
    \E i \in EventIds :
        /\ events[i].pc = "putFailed"
        /\ events[i].answer = Resolved(events[i].netResp)
        /\ events[i].netResp.status = 200

\* C15: once the activation of a newer version has completed, the cache store
\* holds no generation tagged with an older version in any later state, whatever
\* fetch events of the older worker are in flight at the time of activation.
C15_NoOlderGenerationAfterActivation ==
    \A v \in Versions, u \in Versions :
        (u < v /\ phase[v] = "activated") => ~HasCache(caches, CACHE_NAME(u))

\* =========================================================================
\* Properties of the complementary frame updates (checked under SpecTrip)
\* =========================================================================

\* the round trip has run: frame with speed s, updateConfig, frame with
\* speed squareSize - s
TripDone == trip.step = 3

\* C13 as stated: for each single-axis direction and any start offset in
\* [0, squareSize), a frame update with speed s followed by one with speed
\* squareSize - s returns the moved component to its original value and leaves the
\* other component unchanged.
C13_RoundTrip == TripDone => trip.gridOffset = trip.start

\* both speeds are at least the 0.1 floor of updateAnimation
AboveFloor == MinEffectiveSpeed <= trip.s /\ trip.s <= trip.squareSize - MinEffectiveSpeed

\* C13 amended: the round trip returns the offset when both s and squareSize - s
\* are at least the 0.1 floor, the arithmetic being exact.
C13_RoundTripAboveFloor == (TripDone /\ AboveFloor) => trip.gridOffset = trip.start

\* a round trip above the floor whose first frame wrapped the offset
C13_Witness ==
    /\ TripDone /\ AboveFloor
    /\ trip.direction = "right" /\ trip.start.x < trip.s
    /\ trip.gridOffset = trip.start

\* =========================================================================
\* Properties of the background instance (checked under SpecBackground)
\* =========================================================================

\* the instances with a pending frame request or an attached listener
LiveInstances ==
    { i \in 1..Len(instances) : instances[i].pending # {} \/ instances[i].listeners # {} }

\* C16: after any sequence of initSpiralBackground() calls at most one instance
\* has a pending frame request or attached listeners, and while the background
\* canvas is absent a call creates no instance and leaves squaresAnimationInstance
\* unchanged.
C16_SingleLiveInstance ==
    /\ [](/\ Cardinality(LiveInstances) <= 1
          /\ LiveInstances \subseteq {squaresAnimationInstance})
    /\ [][ ~canvasPresent =>
             /\ squaresAnimationInstance' = squaresAnimationInstance
             /\ Len(instances') = Len(instances)
             /\ lastInit' \in {lastInit, "aborted"} ]_vars

\* the second instance is running, the first was destroyed with its latest frame
\* request pending, and a call without the canvas has returned
C16_Witness ==
    /\ Len(instances) = 2 /\ squaresAnimationInstance = 2
    /\ instances[1].animationId = NullId /\ instances[1].listeners = {}
    /\ instances[2].animationId > 3
    /\ ~canvasPresent /\ lastInit = "aborted"

\* =========================================================================
\* Properties of the page navigation (checked under SpecNav)
\* =========================================================================

\* C17: for any sequence of navigateTo calls and any interleaving of their
\* transition timers, at most one page content element carries the class 'active'
\* at any time, and once all timers have fired the active element is the one named
\* by state.currentPage.
C17_SingleActivePage ==
    /\ Cardinality(active) <= 1
    /\ timers = <<>> => active = {currentPage}

====
